---- MODULE Spec2Model ----
(***************************************************************************)
(* Model of the pipeline runner scripts/main_pipeline_runner.py: the       *)
(* module-level set-up, get_latest_file, check_dependencies, run_script,   *)
(* run_analysis_and_visualization and main, together with the environment  *)
(* the runner observes (the artifact directory, the stage processes, the   *)
(* clock).  One process runs main() once; a new process starts a new run.  *)
(***************************************************************************)
EXTENDS Integers, Sequences, FiniteSets, TLC

\* ---------------------------------------------------------------- bounds
\* modification times of files are 1..MaxMtime (0 stands for "no such file")
MaxMtime == 2
\* the clock readings of one process are 0..MaxClock
MaxClock == 1

\* ------------------------------------------------------- program constants
\* scripts_to_run, in list order
scripts_to_run ==
    << "./load_and_preprocess.py", "./extract_epochs.py", "./ica_analysis.py",
       "./erp_analysis.py", "./psd_analysis.py", "./visualizations.py",
       "./source_localization.py" >>

NStages == Len(scripts_to_run)

\* the module-level constant `directory`
directory == "/Users/nooz/MetaViz/MataMind/scripts/"

\* File names are sequences of name fragments, so that str.endswith is a
\* computation on the name and not a lookup.
FilteredExt == << "_filtered", "_raw.fif" >>
EpochsExt   == << "_epochs-epo.fif" >>
CleanedName == << "cleaned_subject", "_raw.fif" >>

\* the names the directory may hold in this model
FileNames ==
    { << "run" >> \o FilteredExt,
      << "run" >> \o EpochsExt,
      << "run2" >> \o EpochsExt,
      CleanedName }

\* the files of FileNames that a stage script writes when it exits 0:
\* load_and_preprocess.py writes channel_names.txt and three .png files and
\* saves no .fif file; extract_epochs.py saves <name>_epochs-epo.fif;
\* ica_analysis.py saves cleaned_<name>_epochs-epo.fif, and the other
\* scripts save .png and .html files only (the eeg_data_dir of config.ini
\* is taken to be `directory`)
Outputs(script) ==
    IF script = "./extract_epochs.py"
    THEN { << "run" >> \o EpochsExt, << "run2" >> \o EpochsExt }
    ELSE { }

\* what a stage process may print
StdoutTexts == { "out" }
StderrTexts == { "", "bad input" }
\* exit codes a stage process may end with
ExitCodes == { 0, 1, 2 }

NoResult == [ returncode |-> -1, stdout |-> "", stderr |-> "" ]
NoExc    == [ type |-> "none", kind |-> "none", msg |-> << >> ]
NoPath   == [ dir |-> "", name |-> << >> ]
NoFailure == [ pos |-> 0, returncode |-> 0, stderr |-> "" ]

VARIABLES
    pc,          \* where the controller is in main()
    i,           \* 1-based position of `script` in scripts_to_run
    fs,          \* the directory: file name -> modification time, 0 = absent
    dirExists,   \* whether `directory` exists
    cwdIsDir,    \* whether os.getcwd() is `directory`
    now,         \* the clock
    start_time,  \* main's start_time
    end_time,    \* the datetime.now() of the finally clause (-1 = not taken)
    script_start,\* run_script's start_time
    resolved,    \* the path get_latest_file returned to check_dependencies
    running,     \* positions of the stages whose process is alive
    result,      \* run_script's `result` (the CompletedProcess)
    exc,         \* the exception raised inside main's try block
    log,         \* the records written to pipeline_log.txt by this process
    launched,    \* the scripts whose process was spawned, in spawn order
    failure,     \* the stage process that ended with a nonzero exit code
    gate,        \* outcome of check_dependencies per position checked so far
    touched,     \* the directory changed since get_latest_file listed it
    command,     \* run_script's `command`, the argument vector of the child
    gate_path,   \* the path the latest dependency check found present
    observed     \* what callers have seen: <<status of the run, what main gave back>>

vars == << pc, i, fs, dirExists, cwdIsDir, now, start_time, end_time,
           script_start, resolved, running, result, exc, log, launched,
           failure, gate, touched, command, gate_path, observed >>

\* --------------------------------------------------------------- helpers
\* str.endswith on fragment sequences
\* a test that looks at the last part of the two names only
EndsWithLastPart(name, ext) ==
    /\ Len(name) >= 1
    /\ Len(ext) >= 1
    /\ name[Len(name)] = ext[Len(ext)]

EndsWith(name, ext) ==
    /\ Len(name) >= Len(ext)
    /\ SubSeq(name, Len(name) - Len(ext) + 1, Len(name)) = ext

\* a path that leaves the directory out
PathJoinBare(dir, name) == [ dir |-> ".", name |-> name ]

\* os.path.join(directory, name)
PathJoin(dir, name) == [ dir |-> dir, name |-> name ]

\* os.listdir(directory) as a set (the order of the listing is arbitrary)
ListDir == { f \in FileNames : fs[f] > 0 }

\* os.path.exists(path)
PathExists(path) ==
    /\ path.dir = directory
    /\ dirExists
    /\ path.name \in FileNames
    /\ fs[path.name] > 0

\* one record of the log: logging.info / logging.error
LogRec(level, msg) == [ level |-> level, msg |-> msg ]

Range(s) == { s[k] : k \in 1..Len(s) }


\* ------------------------------------------------------------ exceptions
Exception(type, kind, msg) == [ type |-> type, kind |-> kind, msg |-> msg ]

\* outcome of a call: a returned path, or the exception that left the call
Returned(path) == [ ok |-> TRUE, path |-> path, exc |-> NoExc ]
Raised(e)      == [ ok |-> FALSE, path |-> NoPath, exc |-> e ]

\* a choice that does not look at the modification times
AnyFile(files) == files

\* the files among `files` that max(files, key=os.path.getmtime) can return:
\* max returns the first maximal element of the listing, and os.listdir
\* promises no order, so every file of greatest mtime is a possible answer
MaxByMtime(files) == { f \in files : \A g \in files : fs[g] <= fs[f] }

\* get_latest_file(extension): the set of outcomes the call can have in the
\* current state of the directory
get_latest_file(extension) ==
    IF ~dirExists
    THEN \* os.listdir(directory) raises
         { Raised(Exception("FileNotFoundError", "ConfigurationError",
               << "[Errno 2] No such file or directory: ", directory >>)) }
    ELSE LET files == { f \in ListDir : EndsWith(f, extension) }
         IN  IF files = {}
             THEN { Raised(Exception("FileNotFoundError", "MissingArtifact",
                       << "No files with extension " >> \o extension
                           \o << " found." >>)) }
             ELSE IF ~cwdIsDir
             THEN \* os.path.getmtime(f) gets the bare name f, which is
                  \* resolved against the working directory, where it is absent
                  { Raised(Exception("FileNotFoundError", "Other",
                       << "[Errno 2] No such file or directory: " >> \o f))
                    : f \in files }
             ELSE { Returned(PathJoin(directory, f)) : f \in MaxByMtime(files) }

\* an except clause that takes every exception
CaughtAny(e) == TRUE

\* the except clause of main: which exceptions `except RuntimeError` takes
Caught(e) == e.type = "RuntimeError"

\* the status of the run as the log states it: Failed once the except clause
\* has logged, Completed once the else clause has logged
FailureLine(r) ==
    r.level = "ERROR" /\ r.msg[1] = "Pipeline execution stopped due to an error: "
SuccessLine(r) ==
    r.level = "INFO" /\ r.msg = << "Pipeline executed successfully." >>
SummaryLine(r) ==
    r.level = "INFO" /\ r.msg[1] = "Total pipeline execution time: "

RunStatus ==
    IF \E k \in 1..Len(log) : FailureLine(log[k]) THEN "Failed"
    ELSE IF \E k \in 1..Len(log) : SuccessLine(log[k]) THEN "Completed"
    ELSE IF pc = "idle" THEN "Idle"
    ELSE "Running"

\* how the gate outcome of a position is recorded
GateOutcome(e) ==
    CASE e.kind = "MissingArtifact"    -> "Blocked"
      [] e.kind = "ConfigurationError" -> "ConfigError"
      [] OTHER                         -> "Error"

\* ------------------------------------------------------------------ Init
\* the state right after the module body has run (logging configured with
\* mode='w', the working directory logged) and before main() is called
StartLog ==
    << LogRec("INFO", << "Current working directory: ",
                         IF cwdIsDir THEN directory ELSE "/elsewhere" >>) >>

Fresh ==
    /\ pc = "idle"
    /\ i = 0
    /\ dirExists \in BOOLEAN
    /\ cwdIsDir \in BOOLEAN
    /\ fs \in [ FileNames -> 0..MaxMtime ]
    /\ ~dirExists => \A f \in FileNames : fs[f] = 0
    /\ now = 0
    /\ start_time = 0
    /\ end_time = -1
    /\ script_start = 0
    /\ resolved = NoPath
    /\ running = {}
    /\ result = NoResult
    /\ exc = NoExc
    /\ log = StartLog
    /\ launched = << >>
    /\ failure = NoFailure
    /\ gate = << >>
    /\ touched = FALSE
    /\ command = << >>
    /\ gate_path = NoPath

Init == Fresh /\ observed = {}


\* --------------------------------------------------------------- actions
\* main, lines 109-110: start_time, "Pipeline execution started."
main_start ==
    /\ pc = "idle"
    /\ start_time' = now
    /\ log' = Append(log, LogRec("INFO", << "Pipeline execution started." >>))
    /\ i' = 1
    /\ pc' = "loop"
    /\ UNCHANGED << fs, dirExists, cwdIsDir, now, end_time, script_start,
                    resolved, running, result, exc, launched, command, gate_path, failure, gate, touched,
                    observed >>

\* the path a dependency check that returns has found present: the one
\* get_latest_file gave (lines 66, 70), the fixed one (line 75), or none
GatePath ==
    IF pc = "exists" THEN resolved
    ELSE IF scripts_to_run[i] \in { "./erp_analysis.py", "./psd_analysis.py" }
         THEN PathJoin(directory, CleanedName)
         ELSE NoPath

\* check_dependencies returned: the controller goes on to run_script
GateReady ==
    /\ gate' = Append(gate, "Ready")
    /\ gate_path' = GatePath
    /\ pc' = "launch"
    /\ resolved' = NoPath
    /\ touched' = FALSE
    /\ UNCHANGED exc

\* a gate whose exception is dropped on the way to main: the controller
\* goes on to run_script
GateRaisesSwallowed(e) ==
    /\ gate' = Append(gate, GateOutcome(e))
    /\ gate_path' = NoPath
    /\ pc' = "launch"
    /\ resolved' = NoPath
    /\ touched' = FALSE
    /\ UNCHANGED exc

\* check_dependencies (or get_latest_file under it) raised e
GateRaises(e) ==
    /\ gate' = Append(gate, GateOutcome(e))
    /\ gate_path' = NoPath
    /\ exc' = e
    /\ pc' = "except"
    /\ resolved' = NoPath
    /\ touched' = FALSE

\* a check that asks the locator for the first script too
LocatorScriptsWithFirst ==
    { "./load_and_preprocess.py", "./extract_epochs.py", "./ica_analysis.py" }

\* the branches of check_dependencies that call get_latest_file, and the
\* suffix each one asks for
LocatorScripts == { "./extract_epochs.py", "./ica_analysis.py" }
RequiredExt(script) ==
    IF script = "./extract_epochs.py" THEN FilteredExt ELSE EpochsExt
\* the branch that tests one fixed path
FixedPathScripts == { "./erp_analysis.py", "./psd_analysis.py" }

NotFoundMsg(script, path) ==
    ( CASE script = "./extract_epochs.py" -> << "Filtered EEG data (" >>
        [] script = "./ica_analysis.py"   -> << "Epochs data (" >>
        [] OTHER                          -> << "ICA cleaned data (" >> )
    \o << path.dir >> \o path.name \o << ") not found. Cannot run ", script >>

\* main line 114, check_dependencies lines 64-66, 69-70, 73-77: the branch
\* for scripts_to_run[i], up to the return of get_latest_file where called
check_dependencies ==
    /\ pc = "loop"
    /\ i <= NStages
    /\ LET script == scripts_to_run[i]
       IN  CASE script \in LocatorScripts ->
                  \E r \in get_latest_file(RequiredExt(script)) :
                     IF r.ok
                     THEN /\ resolved' = r.path
                          /\ touched' = FALSE
                          /\ pc' = "exists"
                          /\ UNCHANGED << exc, gate, gate_path >>
                     ELSE GateRaises(r.exc)
             [] script \in FixedPathScripts ->
                  LET ica_cleaned_file == PathJoin(directory, CleanedName)
                  IN  IF PathExists(ica_cleaned_file)
                      THEN GateReady
                      ELSE GateRaises(Exception("RuntimeError", "MissingArtifact",
                               NotFoundMsg(script, ica_cleaned_file)))
             [] OTHER -> GateReady
    /\ UNCHANGED << i, fs, dirExists, cwdIsDir, now, start_time, end_time,
                    script_start, running, result, log, launched, command,
                    failure, observed >>

\* check_dependencies lines 67-68 and 71-72: os.path.exists on the path that
\* get_latest_file returned
check_dependencies_exists ==
    /\ pc = "exists"
    /\ IF PathExists(resolved)
       THEN GateReady
       ELSE GateRaises(Exception("RuntimeError", "MissingArtifact",
                NotFoundMsg(scripts_to_run[i], resolved)))
    /\ UNCHANGED << i, fs, dirExists, cwdIsDir, now, start_time, end_time,
                    script_start, running, result, log, launched, command,
                    failure, observed >>

\* an argument that passes the path the dependency check resolved
ResolvedPathArgs == << << gate_path.dir >> \o gate_path.name >>

\* main line 115: run_script(script) is called without args, so args is []
RunScriptArgs == << >>

\* run_script line 49: command = ['python', script_name] + args; each
\* argument is a sequence of text fragments
Command(script_name, args) == << << "python" >>, << script_name >> >> \o args

StartRec(script) ==
    LogRec("INFO", << "--- Start running script: ", script, " ---" >>)

\* a spawn that does not wait for the child (Popen without wait)
AfterSpawnNoWait == "loop"

\* what the controller does once subprocess.run has spawned the child:
\* subprocess.run waits for it
AfterSpawn == "wait"

\* run_script lines 49-53: the start record, then subprocess.run spawns
\* ['python', script_name]
run_script_spawn ==
    /\ pc = "launch"
    /\ log' = Append(log, StartRec(scripts_to_run[i]))
    /\ script_start' = now
    /\ command' = Command(scripts_to_run[i], RunScriptArgs)
    /\ running' = running \cup { i }
    /\ launched' = Append(launched, scripts_to_run[i])
    /\ pc' = AfterSpawn
    /\ UNCHANGED << i, fs, dirExists, cwdIsDir, now, start_time, end_time,
                    resolved, result, exc, failure, gate, touched, gate_path,
                    observed >>

\* run_script lines 49-53 when 'python' cannot be executed: subprocess.run
\* raises FileNotFoundError and no child exists
run_script_spawn_fails ==
    /\ pc = "launch"
    /\ log' = Append(log, StartRec(scripts_to_run[i]))
    /\ script_start' = now
    /\ command' = << >>
    /\ exc' = Exception("FileNotFoundError", "SpawnFailure",
                  << "[Errno 2] No such file or directory: ", "python" >>)
    /\ pc' = "except"
    /\ UNCHANGED << i, fs, dirExists, cwdIsDir, now, start_time, end_time,
                    resolved, running, result, launched, gate_path, failure,
                    gate, touched, observed >>

\* a stage process ends; subprocess.run (line 53) returns its CompletedProcess
subprocess_exit ==
    /\ pc = "wait"
    /\ \E k \in running, rc \in ExitCodes, out \in StdoutTexts, err \in StderrTexts :
          /\ running' = running \ { k }
          /\ failure' = IF rc # 0
                        THEN [ pos |-> k, returncode |-> rc, stderr |-> err ]
                        ELSE failure
          /\ IF k = i
             THEN /\ result' = [ returncode |-> rc, stdout |-> out, stderr |-> err ]
                  /\ pc' = "collected"
             ELSE UNCHANGED << result, pc >>
    /\ UNCHANGED << i, fs, dirExists, cwdIsDir, now, start_time, end_time,
                    script_start, resolved, exc, log, launched, command, gate_path, gate, touched,
                    observed >>

\* a test that takes only a stage killed by a signal for a failed stage
StageFailedBySignal(res) == res.returncode < 0

\* run_script line 57: the test that makes a stage a failed stage
StageFailed(res) == res.returncode # 0

\* a loop that steps over every other element
NextIndexSkips(k) == k + 2

\* a loop that takes the same element again
NextIndexSame(k) == k

\* main line 113: the for loop takes the next element of scripts_to_run
NextIndex(k) == k + 1

\* a finished record that does not give the time the script took
FinishedRecNoDuration(script, execution_time) ==
    LogRec("INFO", << "--- Finished running script: ", script, " ---" >>)

\* run_script line 61
FinishedRec(script, execution_time) ==
    LogRec("INFO", << "--- Finished running script: ", script, " in ",
                      ToString(execution_time), " seconds ---" >>)

\* run_script lines 54-61, and the step of main's for loop to the next script
run_script_collect ==
    /\ pc = "collected"
    /\ LET script == scripts_to_run[i]
           execution_time == now - script_start
       IN  IF StageFailed(result)
           THEN /\ log' = log \o << LogRec("INFO", << result.stdout >>),
                                    LogRec("ERROR", << result.stderr >>) >>
                /\ exc' = Exception("RuntimeError", "StageFailure",
                              << "Script ", script, " failed to run." >>)
                /\ pc' = "except"
                /\ UNCHANGED i
           ELSE /\ log' = log \o << LogRec("INFO", << result.stdout >>),
                                    FinishedRec(script, execution_time) >>
                /\ i' = NextIndex(i)
                /\ pc' = "loop"
                /\ UNCHANGED exc
    /\ result' = NoResult
    /\ command' = << >>
    /\ gate_path' = NoPath
    /\ UNCHANGED << fs, dirExists, cwdIsDir, now, start_time, end_time,
                    script_start, resolved, running, launched, failure, gate, touched,
                    observed >>

\* main line 113: scripts_to_run is exhausted
loop_exit ==
    /\ pc = "loop"
    /\ i > NStages
    /\ pc' = "post"
    /\ UNCHANGED << i, fs, dirExists, cwdIsDir, now, start_time, end_time,
                    script_start, resolved, running, result, exc, log,
                    launched, command, gate_path, failure, gate, touched, observed >>

\* run_analysis_and_visualization, lines 80-105: get_latest_file may raise;
\* the errors of read_raw_fif are handled inside and the function returns
run_analysis_and_visualization ==
    /\ pc = "post"
    /\ \E r \in get_latest_file(EpochsExt) :
          IF r.ok
          THEN pc' = "else" /\ UNCHANGED exc
          ELSE pc' = "except" /\ exc' = r.exc
    /\ UNCHANGED << i, fs, dirExists, cwdIsDir, now, start_time, end_time,
                    script_start, resolved, running, result, log, launched, command, gate_path, failure,
                    gate, touched, observed >>

\* run_analysis_and_visualization, lines 81-82: mne or pyvista is not
\* importable by the interpreter that runs the controller
run_analysis_import_fails ==
    /\ pc = "post"
    /\ exc' = Exception("ImportError", "Other", << "No module named ", "pyvista" >>)
    /\ pc' = "except"
    /\ UNCHANGED << i, fs, dirExists, cwdIsDir, now, start_time, end_time,
                    script_start, resolved, running, result, log, launched, command, gate_path, failure,
                    gate, touched, observed >>

\* main lines 120-121: the except clause, taken for the exceptions it names;
\* any other exception goes to the finally clause still pending
main_except ==
    /\ pc = "except"
    /\ IF Caught(exc)
       THEN log' = Append(log, LogRec("ERROR",
                     << "Pipeline execution stopped due to an error: " >> \o exc.msg))
       ELSE UNCHANGED log
    /\ pc' = "finally"
    /\ UNCHANGED << i, fs, dirExists, cwdIsDir, now, start_time, end_time,
                    script_start, resolved, running, result, exc, launched, command, gate_path, failure,
                    gate, touched, observed >>

\* main lines 122-123: the else clause
main_else ==
    /\ pc = "else"
    /\ log' = Append(log, LogRec("INFO", << "Pipeline executed successfully." >>))
    /\ pc' = "finally"
    /\ UNCHANGED << i, fs, dirExists, cwdIsDir, now, start_time, end_time,
                    script_start, resolved, running, result, exc, launched, command, gate_path, failure,
                    gate, touched, observed >>

\* the closing lines run only when main returns
FinallyOnlyOnReturn == FALSE

\* a main that hands the status of the run to its caller
ReturnsStatus == RunStatus

\* whether the finally clause of main is reached from the state of the try
\* statement: Python runs it on every way out
FinallyRuns == TRUE

\* what main hands to its caller: it has no return statement
ReturnValue == "None"

\* main lines 124-126: the finally clause, then main returns or the pending
\* exception leaves main
main_finally ==
    /\ pc = "finally"
    /\ LET returns == exc = NoExc \/ Caught(exc)
       IN  /\ IF FinallyRuns \/ returns
              THEN /\ end_time' = now
                   /\ log' = Append(log, LogRec("INFO",
                          << "Total pipeline execution time: ",
                             ToString(now - start_time) >>))
              ELSE UNCHANGED << end_time, log >>
           /\ pc' = IF returns THEN "returned" ELSE "raised"
           /\ observed' = IF returns
                          THEN observed \cup { << RunStatus, ReturnValue >> }
                          ELSE observed
    /\ UNCHANGED << i, fs, dirExists, cwdIsDir, now, start_time, script_start,
                    resolved, running, result, exc, launched, command, gate_path, failure, gate, touched >>

\* ----------------------------------------------------------- environment
\* a stage process (or anything else) writes a file of the directory
env_write ==
    /\ pc \in { "wait", "exists" }
    /\ dirExists
    /\ \E f \in FileNames, t \in 1..MaxMtime :
          /\ fs[f] # t
          /\ fs' = [ fs EXCEPT ![f] = t ]
    /\ touched' = (pc = "exists")
    /\ UNCHANGED << pc, i, dirExists, cwdIsDir, now, start_time, end_time,
                    script_start, resolved, running, result, exc, log,
                    launched, command, gate_path, failure, gate, observed >>

\* a file of the directory is removed
env_remove ==
    /\ pc \in { "wait", "exists" }
    /\ \E f \in FileNames :
          /\ fs[f] > 0
          /\ fs' = [ fs EXCEPT ![f] = 0 ]
    /\ touched' = (pc = "exists")
    /\ UNCHANGED << pc, i, dirExists, cwdIsDir, now, start_time, end_time,
                    script_start, resolved, running, result, exc, log,
                    launched, command, gate_path, failure, gate, observed >>

\* time passes: before main is called, and while subprocess.run blocks
tick ==
    /\ pc \in { "idle", "wait" }
    /\ now < MaxClock
    /\ now' = now + 1
    /\ UNCHANGED << pc, i, fs, dirExists, cwdIsDir, start_time, end_time,
                    script_start, resolved, running, result, exc, log,
                    launched, command, gate_path, failure, gate, touched, observed >>

\* a handler that opens the log file for appending (mode='a')
FileHandlerAppend(old) == old

\* logging.FileHandler(log_file, mode='w'), line 14: what the log file
\* holds once the handler has opened it, `old` being what it held before
FileHandler(old) == << >>

\* the runner is started again: a new interpreter process, whose module
\* body has not run yet; pipeline_log.txt is still what the last run left
new_process ==
    /\ pc \in { "returned", "raised" }
    /\ pc' = "boot"
    /\ i' = 0
    /\ dirExists' = TRUE
    /\ cwdIsDir' = TRUE
    /\ fs' = [ f \in FileNames |-> 0 ]
    /\ now' = 0
    /\ start_time' = 0
    /\ end_time' = -1
    /\ script_start' = 0
    /\ resolved' = NoPath
    /\ running' = {}
    /\ result' = NoResult
    /\ exc' = NoExc
    /\ launched' = << >>
    /\ failure' = NoFailure
    /\ gate' = << >>
    /\ touched' = FALSE
    /\ command' = << >>
    /\ gate_path' = NoPath
    /\ UNCHANGED << log, observed >>

\* the module body, lines 9-23: logging.basicConfig opens pipeline_log.txt
\* with mode='w', and the working directory is logged; the process finds
\* the environment it finds
module_body ==
    /\ pc = "boot"
    /\ pc' = "idle"
    /\ dirExists' \in BOOLEAN
    /\ cwdIsDir' \in BOOLEAN
    /\ fs' \in [ FileNames -> 0..MaxMtime ]
    /\ ~dirExists' => \A f \in FileNames : fs'[f] = 0
    /\ log' = Append(FileHandler(log),
                      LogRec("INFO", << "Current working directory: ",
                          IF cwdIsDir' THEN directory ELSE "/elsewhere" >>))
    /\ UNCHANGED << i, now, start_time, end_time, script_start, resolved,
                    running, result, exc, launched, command, gate_path, failure, gate, touched, observed >>

Next ==
    \/ main_start
    \/ check_dependencies
    \/ check_dependencies_exists
    \/ run_script_spawn
    \/ run_script_spawn_fails
    \/ subprocess_exit
    \/ run_script_collect
    \/ loop_exit
    \/ run_analysis_and_visualization
    \/ run_analysis_import_fails
    \/ main_except
    \/ main_else
    \/ main_finally
    \/ env_write
    \/ env_remove
    \/ tick

\* one process: the module body, then main() once
Spec == Init /\ [][Next]_vars

\* the runner started again and again
NextRuns == Next \/ new_process \/ module_body
SpecRuns == Init /\ [][NextRuns]_vars

TypeOK ==
    /\ pc \in { "boot", "idle", "loop", "exists", "launch", "wait", "collected", "post",
                "except", "else", "finally", "returned", "raised" }
    /\ i \in 0..(NStages + 1)
    /\ now \in 0..MaxClock


\* ================================================================ claims
Terminal == pc \in { "returned", "raised" }

HasFailureLine == \E n \in 1..Len(log) : FailureLine(log[n])
HasSuccessLine == \E n \in 1..Len(log) : SuccessLine(log[n])

\* the ordinals of the launches made so far
Launches == 1..Len(launched)

\* C1: if the required artifact of stage k is absent when its dependency
\* check runs, no process is launched for stage k or any later stage, and
\* the run ends with status Failed.
C1_BlockedGateEndsFailed ==
    \A k \in 1..Len(gate) :
        gate[k] = "Blocked" =>
            /\ Len(launched) < k
            /\ Terminal => RunStatus = "Failed"

\* C2 as stated: if stage k exits nonzero, no later stage is launched, the
\* run ends Failed, and the outcome recorded for stage k carries its exit
\* code and its captured stderr.
C2_RecordedWithExitCode ==
    (failure # NoFailure /\ exc.kind = "StageFailure") =>
        /\ Len(launched) = failure.pos
        /\ Terminal => RunStatus = "Failed"
        /\ \E n \in 1..Len(log) :
              log[n] = LogRec("ERROR", << failure.stderr >>)
        /\ \E n \in 1..Len(log) :
              /\ log[n].level = "ERROR"
              /\ ToString(failure.returncode) \in Range(log[n].msg)

\* C2 as amended: if stage k exits nonzero, no later stage is launched, the
\* run ends Failed, and the log holds the captured stderr of stage k as an
\* ERROR record (non-empty whenever the stage wrote to stderr) and, once the
\* except clause has run, the failure line naming the script.
C2_FailedStageStopsRun ==
    /\ failure # NoFailure => Len(launched) = failure.pos
    /\ (failure # NoFailure /\ exc.kind = "StageFailure") =>
          /\ \E n \in 1..Len(log) :
                log[n] = LogRec("ERROR", << failure.stderr >>)
          /\ Terminal =>
                /\ RunStatus = "Failed"
                /\ pc = "returned"
                /\ log[Len(log) - 1] = LogRec("ERROR",
                      << "Pipeline execution stopped due to an error: ",
                         "Script ", scripts_to_run[failure.pos],
                         " failed to run." >>)
    /\ (failure # NoFailure /\ Terminal) => exc.kind = "StageFailure"

C2_Witness ==
    /\ Terminal
    /\ failure.pos = 3
    /\ failure.returncode = 1
    /\ failure.stderr = "bad input"
    /\ Len(launched) = 3

\* C3: the dependency check of a stage completes before the stage's process
\* is launched, and no process is started for a stage whose check has not
\* returned Ready.
C3_GateBeforeLaunch ==
    /\ \A j \in Launches : j <= Len(gate) /\ gate[j] = "Ready"
    /\ pc \in { "launch", "wait", "collected" } =>
          /\ Len(gate) = i
          /\ gate[i] = "Ready"
    /\ pc = "launch" => Len(launched) = i - 1
    /\ running # {} => gate[Len(gate)] = "Ready"

C3_Witness ==
    /\ pc = "wait"
    /\ i = 3
    /\ running = { 3 }
    /\ gate = << "Ready", "Ready", "Ready" >>


\* C4: whatever stops the stage loop, the closing step runs: the end time is
\* taken and is not before the start time, the total duration is computed
\* and the summary line is the last record of the log.
C4_FinalizerAlwaysRuns ==
    Terminal =>
        /\ end_time # -1
        /\ end_time >= start_time
        /\ log[Len(log)] = LogRec("INFO",
              << "Total pipeline execution time: ",
                 ToString(end_time - start_time) >>)

C4_Witness ==
    /\ pc = "raised"
    /\ exc.kind = "SpawnFailure"
    /\ end_time > start_time
    /\ SummaryLine(log[Len(log)])

FourKinds ==
    { "MissingArtifact", "SpawnFailure", "StageFailure", "ConfigurationError" }

\* C5: each of MissingArtifact, SpawnFailure, StageFailure and
\* ConfigurationError raised during the run is caught by main and turned
\* into a Failed run with a logged reason; none leaves main unhandled.
C5_EveryErrorKindBecomesFailed ==
    (Terminal /\ exc.kind \in FourKinds) =>
        /\ pc = "returned"
        /\ RunStatus = "Failed"
        /\ \E n \in 1..Len(log) :
              log[n] = LogRec("ERROR",
                  << "Pipeline execution stopped due to an error: " >> \o exc.msg)

\* C6: in every state the stages launched so far are a prefix of
\* scripts_to_run in list order: never more than the list holds, none
\* skipped, none out of order, none twice.
C6_LaunchedIsPrefix ==
    /\ Len(launched) <= NStages
    /\ launched = SubSeq(scripts_to_run, 1, Len(launched))

C6_Witness == launched = scripts_to_run /\ Terminal

\* C7 as stated: a run that ends Failed has a result for strictly fewer
\* stages than are configured.
C7_FailedIsStrictPrefix ==
    (Terminal /\ RunStatus = "Failed") => Len(launched) < NStages

\* C7 as amended: a run that ends Failed has results for a prefix of the
\* stage list; the prefix is strict when a dependency check stopped the run,
\* and it is the whole list exactly when the last stage exited nonzero.
C7_FailedIsPrefix ==
    (Terminal /\ RunStatus = "Failed") =>
        /\ Len(launched) <= NStages
        /\ launched = SubSeq(scripts_to_run, 1, Len(launched))
        /\ running = {}
        /\ exc.kind = "MissingArtifact" =>
              Len(launched) = Len(gate) - 1 /\ Len(launched) < NStages
        /\ Len(launched) = NStages <=> failure.pos = NStages

C7_Witness ==
    /\ Terminal
    /\ RunStatus = "Failed"
    /\ Len(launched) = NStages

AllGatesReady == \A k \in 1..Len(gate) : gate[k] = "Ready"

C9_CallerTellsStatus ==
    \A p \in observed, q \in observed :
        p[1] # q[1] => p[2] # q[2]

\* C9 as amended: after main returns, the value handed to the caller is None
\* whether the run Failed or Completed; the status is observable in the log
\* only, where a run that returned has exactly one of the failure line and
\* the success line.
C9_StatusOnlyInLog ==
    /\ \A p \in observed : p[2] = "None" /\ p[1] \in { "Failed", "Completed" }
    /\ pc = "returned" =>
          /\ HasFailureLine <=> ~HasSuccessLine
          /\ HasFailureLine <=> exc # NoExc

C9_Witness ==
    /\ { << "Failed", "None" >>, << "Completed", "None" >> } \subseteq observed
    /\ pc = "returned"

\* C10: at most one stage process runs at any time, and the dependency check
\* and the process of the next stage start only after the process of the
\* current stage has ended and its output has been collected and logged.
C10_OneStageAtATime ==
    /\ Cardinality(running) <= 1
    /\ running # {} => pc = "wait" /\ running = { i }
    /\ pc \in { "loop", "exists", "launch" } =>
          /\ running = {}
          /\ result = NoResult
          /\ i > 1 =>
                /\ log[Len(log)].msg[1] = "--- Finished running script: "
                /\ log[Len(log)].msg[2] = scripts_to_run[i - 1]
                /\ log[Len(log) - 1].msg \in { << t >> : t \in StdoutTexts }

C10_Witness ==
    /\ pc = "wait"
    /\ i = 2
    /\ running = { 2 }
    /\ Len(launched) = 2


TerminalStatus == { "Completed", "Failed" }

\* the status changes the run may make: Idle -> Running -> Completed or Failed
StatusSteps ==
    { << "Idle", "Running" >>, << "Running", "Completed" >>,
      << "Running", "Failed" >> }

\* C11: the run status goes Idle -> Running -> Completed or Failed; every run
\* whose stage processes all end reaches exactly one of Completed and
\* Failed by the time main is left, and once it has, the status, the
\* dependency checks made and the stages launched change no more.
C11_StatusMachine ==
    [][ /\ RunStatus' # RunStatus => << RunStatus, RunStatus' >> \in StatusSteps
        /\ Terminal' => RunStatus' \in TerminalStatus
        /\ RunStatus \in TerminalStatus =>
              /\ RunStatus' = RunStatus
              /\ gate' = gate
              /\ launched' = launched ]_vars


\* the text msg holds the fragments frag, in a row
Mentions(msg, frag) ==
    \E k \in 1..(Len(msg) - Len(frag) + 1) :
        SubSeq(msg, k, k + Len(frag) - 1) = frag

\* the run was stopped because get_latest_file found no file for the suffix
\* that the dependency check of scripts_to_run[i] asks for
BlockedByLocator ==
    /\ pc \in { "finally", "returned", "raised" }
    /\ i \in 1..NStages
    /\ scripts_to_run[i] \in LocatorScripts
    /\ exc.kind = "MissingArtifact"
    /\ exc.type = "FileNotFoundError"

\* C12: when a stage is blocked because the locator finds no file for its
\* required pattern, the failure reason produced and logged names both the
\* missing suffix pattern and the directory that was searched.
C12_BlockedReasonNamesPatternAndDirectory ==
    BlockedByLocator =>
        LET ext == RequiredExt(scripts_to_run[i])
        IN  /\ Mentions(exc.msg, ext)
            /\ directory \in Range(exc.msg)
            /\ \E n \in 1..Len(log) :
                  /\ log[n].level = "ERROR"
                  /\ Mentions(log[n].msg, ext)
                  /\ directory \in Range(log[n].msg)

\* the path of gate_path as one argument of a command
PathArg(path) == << path.dir >> \o path.name

\* C13 as stated: for every stage that has a required artifact, the argument
\* vector the stage process is launched with contains the artifact path that
\* the dependency check resolved for that stage.
C13_CommandCarriesResolvedPath ==
    (running # {} /\ gate_path # NoPath) => PathArg(gate_path) \in Range(command)

\* C13 as amended: every stage process is launched with the argument vector
\* ['python', script] and nothing else; the path the dependency check
\* resolved is used for the existence test only and is not passed on.
C13_CommandIsPythonScript ==
    running # {} =>
        /\ command = << << "python" >>, << scripts_to_run[i] >> >>
        /\ gate_path # NoPath => PathArg(gate_path) \notin Range(command)

C13_Witness ==
    /\ pc = "wait"
    /\ i = 3
    /\ running = { 3 }
    /\ gate_path = PathJoin(directory, << "run2" >> \o EpochsExt)


\* the suffixes the locator is asked for in the checks below: the two of
\* check_dependencies, one shared by two kinds of file, one of no file
Suffixes == { FilteredExt, EpochsExt, << "_raw.fif" >>, << ".txt" >> }

\* name is some text followed by ext
HasSuffix(name, ext) ==
    \E k \in 0..Len(name) : name = SubSeq(name, 1, k) \o ext

\* the entries of the directory whose names end with ext
Matching(ext) == { f \in FileNames : fs[f] > 0 /\ HasSuffix(f, ext) }

\* C14: if the directory holds no entry whose name ends with the suffix,
\* get_latest_file yields the not-found outcome (FileNotFoundError "No files
\* with extension ... found.") and returns no path.
C14_NoMatchIsNotFound ==
    \A ext \in Suffixes :
        (dirExists /\ Matching(ext) = {}) =>
            \A r \in get_latest_file(ext) :
                /\ ~r.ok
                /\ r.path = NoPath
                /\ r.exc.type = "FileNotFoundError"
                /\ r.exc.kind = "MissingArtifact"
                /\ r.exc.msg = << "No files with extension " >> \o ext
                                   \o << " found." >>

C14_Witness ==
    /\ pc = "except"
    /\ i = 2
    /\ dirExists
    /\ fs[CleanedName] > 0
    /\ Matching(FilteredExt) = {}
    /\ exc.kind = "MissingArtifact"
    /\ exc.type = "FileNotFoundError"
    /\ gate_path = NoPath
    /\ launched = << scripts_to_run[1] >>

\* C15: when the files of the directory whose names end with the suffix are
\* not none and have pairwise distinct modification times, get_latest_file
\* returns exactly the one of greatest modification time, whatever the
\* working directory of the runner is.
C15_LatestFileWhateverCwd ==
    [][ \A ext \in { FilteredExt, EpochsExt } :
          ( /\ pc = "loop"
            /\ i \in 1..NStages
            /\ scripts_to_run[i] \in LocatorScripts
            /\ ext = RequiredExt(scripts_to_run[i])
            /\ Matching(ext) # {}
            /\ \A f, g \in Matching(ext) : f # g => fs[f] # fs[g] ) =>
              \E f \in Matching(ext) :
                  /\ \A g \in Matching(ext) : fs[g] <= fs[f]
                  /\ pc' = "exists"
                  /\ resolved' = PathJoin(directory, f) ]_vars

\* C16: a directory that does not exist is reported as a configuration error
\* that can be told from the not-found outcome of the locator, and the run
\* is aborted before any stage process is launched.
C16_MissingDirectoryAbortsBeforeLaunch ==
    ~dirExists =>
        /\ launched = << >>
        /\ \A ext \in Suffixes : \A r \in get_latest_file(ext) :
              /\ ~r.ok
              /\ r.exc.kind = "ConfigurationError"
              /\ r.exc.msg # << "No files with extension " >> \o ext
                                 \o << " found." >>


\* C17: when the process of a stage cannot be spawned at all, this is
\* reported as a condition of its own, not as a nonzero exit, and the run
\* takes the path of a failed run: it becomes Failed, the reason is logged,
\* and no later stage is attempted.
C17_SpawnFailureEndsFailed ==
    (Terminal /\ exc.kind = "SpawnFailure") =>
        /\ exc.type # "RuntimeError"
        /\ failure = NoFailure
        /\ Len(gate) = i
        /\ Len(launched) = i - 1
        /\ RunStatus = "Failed"
        /\ \E n \in 1..Len(log) :
              log[n].level = "ERROR" /\ Mentions(log[n].msg, exc.msg)

\* the run has met a gate that was not Ready, a stage that failed, or an
\* exception
Stopped ==
    \/ exc # NoExc
    \/ failure # NoFailure
    \/ \E k \in 1..Len(gate) : gate[k] # "Ready"

\* C18: within one run each stage's dependency check is made at most once
\* and each stage's process is launched at most once (the k-th check and the
\* k-th launch are those of stage k, and k only grows), and after the first
\* gate that is not Ready or the first failed stage no check and no launch
\* is made.
C18_NoRetry ==
    [][ /\ gate' # gate =>
              /\ ~Stopped
              /\ Len(gate) = i - 1
              /\ \E o \in { "Ready", "Blocked", "ConfigError", "Error" } :
                    gate' = Append(gate, o)
        /\ launched' # launched =>
              /\ ~Stopped
              /\ Len(launched) = i - 1
              /\ Len(gate) = i
              /\ launched' = Append(launched, scripts_to_run[i]) ]_vars

C18_Witness ==
    /\ Terminal
    /\ failure # NoFailure
    /\ failure.pos = 2
    /\ Len(gate) = 2
    /\ Len(launched) = 2


\* a record that holds one captured text of a stage process
Captured(r, texts) == \E t \in texts : r.msg = << t >>

\* a record that names the script and a time it took
ResultWithDuration(r, script) ==
    /\ script \in Range(r.msg)
    /\ \E d \in 0..MaxClock : ToString(d) \in Range(r.msg)

\* C19 as stated: for every attempted stage the log holds, in this order, a
\* start record, the captured stdout, the captured stderr, and a result
\* record that gives success or failure with the stage's duration; and the
\* log of every run ends with a summary that gives the status of the run
\* and the total duration.
C19_LogHasOutputResultSummary ==
    Terminal =>
        /\ \A j \in 1..NStages : \A n \in 1..Len(log) :
              log[n] = StartRec(scripts_to_run[j]) =>
                  /\ Len(log) >= n + 3
                  /\ Captured(log[n + 1], StdoutTexts)
                  /\ Captured(log[n + 2], StderrTexts)
                  /\ ResultWithDuration(log[n + 3], scripts_to_run[j])
        /\ SummaryLine(log[Len(log)])
        /\ RunStatus \in Range(log[Len(log)].msg)

\* C19 as amended: the start record of stage j is record 3j of the log.  A
\* stage that exited 0 is logged as start, captured stdout, and a finished
\* record with its duration (its stderr is not logged); a stage that exited
\* nonzero as start, captured stdout, captured stderr, and then the failure
\* line of the run, which gives no duration; a stage that could not be
\* spawned leaves its start record only.  The log of every run that ends
\* ends with the total duration, and that record gives no status.
C19_StageLogLayout ==
    /\ \A j \in 1..Len(launched) :
          Len(log) >= 3 * j /\ log[3 * j] = StartRec(scripts_to_run[j])
    /\ \A j \in 1..NStages : \A n \in 1..Len(log) :
          log[n] = StartRec(scripts_to_run[j]) =>
              /\ n = 3 * j
              /\ j < i =>
                    /\ log[n + 1].level = "INFO"
                    /\ Captured(log[n + 1], StdoutTexts)
                    /\ \E d \in 0..MaxClock :
                          log[n + 2] = LogRec("INFO",
                              << "--- Finished running script: ",
                                 scripts_to_run[j], " in ", ToString(d),
                                 " seconds ---" >>)
              /\ (failure # NoFailure /\ failure.pos = j /\ pc # "collected") =>
                    /\ log[n + 1].level = "INFO"
                    /\ Captured(log[n + 1], StdoutTexts)
                    /\ log[n + 2] = LogRec("ERROR", << failure.stderr >>)
                    /\ pc \in { "finally", "returned", "raised" } =>
                          log[n + 3] = LogRec("ERROR",
                              << "Pipeline execution stopped due to an error: ",
                                 "Script ", scripts_to_run[j],
                                 " failed to run." >>)
              /\ (exc.kind = "SpawnFailure" /\ j = i) =>
                    \/ Len(log) = n
                    \/ Len(log) = n + 1 /\ SummaryLine(log[n + 1])
    /\ Terminal =>
          log[Len(log)] = LogRec("INFO", << "Total pipeline execution time: ",
                                            ToString(end_time - start_time) >>)

C19_Witness ==
    /\ Terminal
    /\ failure # NoFailure
    /\ failure.pos = 2
    /\ failure.stderr = "bad input"
    /\ Len(log) = 10
    /\ log[5].msg[4] = "1"
    /\ FailureLine(log[9])
    /\ SummaryLine(log[10])


\* C20: for a stage whose dependency check asks the locator for a suffix,
\* the outcome of the check is the outcome of the locator: Ready if and only
\* if at least one file of the directory has a name that ends with the
\* suffix, Blocked otherwise.
C20_GateIsLocatorOutcome ==
    [][ ( /\ gate' # gate
          /\ dirExists
          /\ i \in 1..NStages
          /\ scripts_to_run[i] \in LocatorScripts ) =>
            gate'[Len(gate')] =
                IF Matching(RequiredExt(scripts_to_run[i])) # {}
                THEN "Ready" ELSE "Blocked" ]_vars


\* the place of a name of FileNames in the order of Python's str comparison
\* of the whole names: "cleaned_subject_raw.fif" < "run2_epochs-epo.fif"
\* < "run_epochs-epo.fif" < "run_filtered_raw.fif"
LexRank(f) ==
    CASE f = CleanedName                -> 1
      [] f = << "run2" >> \o EpochsExt  -> 2
      [] f = << "run" >> \o EpochsExt   -> 3
      [] f = << "run" >> \o FilteredExt -> 4

\* the files that match ext and have the greatest modification time
Latest(ext) ==
    { f \in Matching(ext) : \A g \in Matching(ext) : fs[g] <= fs[f] }

\* the dependency check of scripts_to_run[i] has got a path from
\* get_latest_file and nothing has changed in the directory since
Located ==
    /\ pc = "exists"
    /\ ~touched
    /\ i \in 1..NStages
    /\ scripts_to_run[i] \in LocatorScripts

\* C21 as stated: when several files that match the suffix share the
\* greatest modification time, get_latest_file returns the one of them with
\* the lexicographically greatest name, whatever the order of the listing.
C21_TieGoesToGreatestName ==
    Located =>
        \A g \in Latest(RequiredExt(scripts_to_run[i])) :
            LexRank(g) <= LexRank(resolved.name)

\* C21 as amended: get_latest_file returns a file of the directory that
\* matches the suffix and has the greatest modification time; when several
\* share it, which of them is returned follows the order of the listing, not
\* the names.
C21_SomeLatestFile ==
    Located =>
        /\ resolved.dir = directory
        /\ resolved.name \in Latest(RequiredExt(scripts_to_run[i]))

C21_Witness ==
    /\ Located
    /\ i = 3
    /\ Latest(EpochsExt) = { << "run" >> \o EpochsExt, << "run2" >> \o EpochsExt }
    /\ resolved = PathJoin(directory, << "run2" >> \o EpochsExt)


\* the scripts for which check_dependencies has no branch
NoPatternScripts ==
    { "./load_and_preprocess.py", "./visualizations.py",
      "./source_localization.py" }

\* C22: for a stage that has no required artifact (the first stage, and
\* every stage check_dependencies has no branch for) the dependency check
\* returns Ready whatever the directory holds, also when it does not exist,
\* and the controller goes on to run_script for that stage: a stage reached
\* because every earlier stage exited 0 is not held back by its gate.
C22_NoPatternAlwaysReady ==
    [][ ( /\ pc = "loop"
          /\ i \in 1..NStages
          /\ scripts_to_run[i] \in NoPatternScripts ) =>
            /\ failure = NoFailure
            /\ Len(launched) = i - 1
            /\ pc' = "launch"
            /\ gate' = Append(gate, "Ready")
            /\ exc' = NoExc
            /\ i' = i ]_vars

C22_Witness ==
    /\ pc = "launch"
    /\ i = 6
    /\ Len(gate) = 6
    /\ gate[6] = "Ready"
    /\ ListDir = {}


\* the files the stages before position k write
OutputsBefore(k) == UNION { Outputs(scripts_to_run[j]) : j \in 1..(k - 1) }

\* the directory holds what the stages launched so far have written, and
\* nothing else
OnlyStageOutputs ==
    /\ dirExists
    /\ \A f \in FileNames : fs[f] > 0 <=> f \in OutputsBefore(i)

\* C23: the required artifact of each stage is the output of an earlier
\* stage: when the directory holds no artifact but those the stages launched
\* so far have written, and each of them exited 0, the dependency check of
\* the next stage returns Ready.
C23_OutputsFeedNextGate ==
    [][ ( /\ pc = "loop"
          /\ i \in 1..NStages
          /\ failure = NoFailure
          /\ cwdIsDir
          /\ OnlyStageOutputs ) =>
            /\ pc' \in { "launch", "exists" }
            /\ exc' = NoExc ]_vars


\* s is an initial part of t
IsPrefix(s, t) == Len(s) <= Len(t) /\ SubSeq(t, 1, Len(s)) = s

\* C24 as stated: the log file is an append target: whatever runs follow,
\* the lines that are in the file stay there, and new lines come after them.
C24_LogOnlyGrows ==
    [][ IsPrefix(log, log') ]_vars

\* C24 as amended: the log file holds the lines of the latest run only.
\* When the runner starts, the file is emptied and the line with the working
\* directory becomes its first line; within one run lines are only appended.
C24_LogHoldsLatestRunOnly ==
    [][ /\ pc = "boot" =>
              /\ Len(log') = 1
              /\ log'[1].msg[1] = "Current working directory: "
        /\ pc # "boot" => IsPrefix(log, log') ]_vars

C24_Witness ==
    /\ pc = "idle"
    /\ observed # {}
    /\ Len(log) = 1


\* C25: the success line and the failure line are never both logged in one
\* run, and the success line is logged only if every script of
\* scripts_to_run was launched and exited 0.
C25_SuccessXorFailure ==
    /\ ~(HasSuccessLine /\ HasFailureLine)
    /\ HasSuccessLine =>
          /\ launched = scripts_to_run
          /\ failure = NoFailure
          /\ running = {}
          /\ i = NStages + 1

C25_Witness ==
    /\ pc = "finally"
    /\ HasSuccessLine
    /\ Len(launched) = NStages

\* the records of the log that give the total time
SummaryRecords == { n \in 1..Len(log) : SummaryLine(log[n]) }

\* C26: the total-time line is logged exactly once per call of main and is
\* the last record main logs, also when an exception that is not a
\* RuntimeError leaves main; in that case neither the success line nor the
\* failure line is in the log before it.
C26_TotalTimeOnceAndLast ==
    /\ ~Terminal => SummaryRecords = { }
    /\ Terminal => SummaryRecords = { Len(log) }
    /\ pc = "raised" =>
          /\ exc # NoExc
          /\ exc.type # "RuntimeError"
          /\ ~HasSuccessLine
          /\ ~HasFailureLine

C26_Witness ==
    /\ pc = "raised"
    /\ exc.type = "FileNotFoundError"
    /\ exc.kind = "MissingArtifact"
    /\ SummaryRecords = { Len(log) }
    /\ Len(log) > 2

\* main is past its try block
AfterTry == { "else", "except", "finally", "returned", "raised" }

\* C27: run_analysis_and_visualization is called at most once per run, only
\* after every script of scripts_to_run has passed its dependency check and
\* exited 0, and never after a stage was blocked or failed.
C27_PostStepOnceAfterAllStages ==
    [][ /\ pc' = "post" =>
              /\ pc = "loop"
              /\ Len(gate) = NStages
              /\ \A k \in 1..NStages : gate[k] = "Ready"
              /\ launched = scripts_to_run
              /\ running = {}
              /\ failure = NoFailure
              /\ exc = NoExc
        /\ pc = "post" => pc' \in AfterTry
        /\ pc \in AfterTry => pc' \in AfterTry ]_vars

C27_Witness ==
    /\ pc = "post"
    /\ Len(gate) = NStages
    /\ Len(launched) = NStages

\* C28: in the dependency checks of extract_epochs.py and ica_analysis.py,
\* when get_latest_file has returned a path and the directory is not changed
\* between the listing and os.path.exists, the test succeeds; the
\* RuntimeError "not found" branch is taken only if the file was removed
\* between the two steps.
C28_ExistsFailsOnlyAfterRemoval ==
    [][ ( pc = "exists" /\ pc' # "exists" ) =>
            /\ ~touched => ( pc' = "launch" /\ gate' = Append(gate, "Ready") )
            /\ pc' = "except" =>
                  /\ touched
                  /\ fs[resolved.name] = 0
                  /\ exc'.type = "RuntimeError"
                  /\ exc'.msg = NotFoundMsg(scripts_to_run[i], resolved) ]_vars

C28_Witness ==
    /\ pc = "except"
    /\ i = 2
    /\ exc.type = "RuntimeError"
    /\ exc.kind = "MissingArtifact"
    /\ Len(gate) = 2
    /\ gate[2] = "Blocked"

====
